---- MODULE Spec2Model ----
(***************************************************************************)
(* Model of img2dataset/downloader.py: the retrying fetcher                *)
(* (download_image_with_retry), the per-row processor                      *)
(* (download_and_process_image_with_retry) and the shard driver            *)
(* (Downloader.download_shard / Downloader.__call__) with its thread pool  *)
(* and semaphore.                                                          *)
(*                                                                         *)
(* Python's None is the empty sequence <<>>; a value v that may be None is *)
(* carried as <<v>>.  Text (error descriptions) is a sequence of tokens.   *)
(***************************************************************************)
EXTENDS Integers, Sequences, FiniteSets, TLC

\* ------------------------------------------------------------------ bounds
MaxRetries == 3
MaxTimeout == 2
MaxRows == 3
MaxThreads == 1
MaxProcRetries == 1

\* ------------------------------------------------------------------ state
VARIABLES
  \* Downloader fields set by __init__
  thread_count, retries, timeout, column_list, compute_hash, verify_hash_type,
  number_sample_per_shard, oom_shard_count, user_agent_token,
  disallowed_header_directives,
  \* whether the interpreter can import remote_pdb and, if so, whether a
  \* debugger client ever connects to it
  remote_pdb,
  \* the request given to __call__ and the storage behind it
  shard_id, shard_file, removed,
  \* download_shard: position, locals, and what __call__ returned
  pc, ret, shard_to_dl, successes, failed_to_download, failed_to_resize,
  status_dict, stats,
  \* the semaphore, the generator, the ThreadPool
  semaphore, loader, task_handler, inqueue, busy, outqueue,
  \* the sample writer: its state, the samples whose write returned, and the
  \* sample of the write call that raised
  writer, written, write_failed,
  \* one call of download_image_with_retry on its own
  fetch_resps, fetch_ret,
  \* one call of download_and_process_image_with_retry on its own
  proc_in, proc_ret,
  \* one call of download_image on a response with X-Robots-Tag headers
  hdr_in, hdr_ret,
  \* one call of compute_key
  key_in, key_ret

cfg == <<thread_count, retries, timeout, column_list, compute_hash, verify_hash_type,
         number_sample_per_shard, oom_shard_count, shard_id, shard_file,
         user_agent_token, disallowed_header_directives, remote_pdb>>
counters == <<successes, failed_to_download, failed_to_resize, status_dict>>
pool == <<semaphore, loader, task_handler, inqueue, busy, outqueue>>
fetchv == <<fetch_resps, fetch_ret, proc_in, proc_ret, hdr_in, hdr_ret, key_in, key_ret>>
vars == <<cfg, removed, pc, ret, shard_to_dl, counters, stats, pool, writer, written,
          write_failed, fetchv>>

None == <<>>
Some(v) == <<v>>

\* ------------------------------------------------- error descriptions
\* str(err) of the exceptions urlopen raises, as token sequences
ErrRateLimit == <<"HTTP", "Error", "429", ":", "Too", "Many", "Requests">>
ErrNotFound == <<"HTTP", "Error", "404", ":", "Not", "Found">>
ErrTimeout == <<"timed", "out">>
ErrWrapped429 == <<"<urlopen", "error", "HTTP", "Error", "429", ">">>

\* the text download_image returns for a response its policy test refuses
ErrDisallowed == <<"Use", "of", "image", "disallowed", "by", "X-Robots-Tag", "directive">>
\* str(err) of the ModuleNotFoundError of `import remote_pdb`
ErrNoRemotePdb == <<"No", "module", "named", "'remote_pdb'">>

Bodies == {"b1", "b2"}

\* what the network gives to one urlopen call: a response with its
\* X-Robots-Tag header values and its body, or a raised exception
Responses ==
  [kind : {"body"}, headers : {<<>>}, body : Bodies]
    \cup [kind : {"raise"}, err : {ErrRateLimit, ErrNotFound, ErrTimeout, ErrWrapped429}]

\* the same with one error text (used where many rows run)
ShardResponses ==
  [kind : {"body"}, headers : {<<>>}, body : Bodies]
    \cup [kind : {"raise"}, err : {ErrNotFound}]

\* ------------------------------------------------------ X-Robots-Tag test
\* Header values and the configured texts are sequences of tokens: words,
\* and the separators ":", "," and " ".
\* str.lower() on one token
Lower(t) ==
  CASE t = "Img2Dataset" -> "img2dataset"
    [] t = "NoAI" -> "noai"
    [] t = "NoIndex" -> "noindex"
    [] OTHER -> t

LowerStr(v) == [i \in 1..Len(v) |-> Lower(v[i])]

\* str.strip(): leading and trailing blanks removed
RECURSIVE Strip(_)
Strip(v) ==
  IF v = <<>> THEN v
  ELSE IF Head(v) = " " THEN Strip(Tail(v))
  ELSE IF v[Len(v)] = " " THEN Strip(SubSeq(v, 1, Len(v) - 1))
  ELSE v

\* values.split(":", 1): one part, or the parts before and after the first ":"
SplitColonOnce(v) ==
  IF \E i \in 1..Len(v) : v[i] = ":"
  THEN LET i == CHOOSE i \in 1..Len(v) : v[i] = ":" /\ \A j \in 1..(i - 1) : v[j] # ":"
       IN  <<SubSeq(v, 1, i - 1), SubSeq(v, i + 1, Len(v))>>
  ELSE <<v>>

\* str.split(","): the parts between the commas
RECURSIVE SplitCommas(_)
SplitCommas(v) ==
  IF \E i \in 1..Len(v) : v[i] = ","
  THEN LET i == CHOOSE i \in 1..Len(v) : v[i] = "," /\ \A j \in 1..(i - 1) : v[j] # ","
       IN  <<SubSeq(v, 1, i - 1)>> \o SplitCommas(SubSeq(v, i + 1, Len(v)))
  ELSE <<v>>

\* ua_token is None or ua_token == user_agent_token
ua_matches(ua_token, user_agent_token_) == ua_token = None \/ ua_token = user_agent_token_

\* is_disallowed(headers, user_agent_token, disallowed_header_directives):
\* headers is the list headers.get_all("X-Robots-Tag", [])
is_disallowed(headers, user_agent_token_, disallowed_) ==
  \E h \in 1..Len(headers) :
    LET uatoken_directives == SplitColonOnce(headers[h])
        parts == SplitCommas(uatoken_directives[Len(uatoken_directives)])
        directives == [i \in 1..Len(parts) |-> LowerStr(Strip(parts[i]))]
        ua_token == IF Len(uatoken_directives) = 2
                    THEN Some(LowerStr(uatoken_directives[1])) ELSE None
    IN  /\ ua_matches(ua_token, user_agent_token_)
        /\ \E i \in 1..Len(directives) : directives[i] \in disallowed_[1]

\* 'HTTP Error 429' in err
is_rate_limit_error_mut_any(err) == TRUE
is_rate_limit_error(err) ==
  \E i \in 1..(Len(err) - 2) :
    err[i] = "HTTP" /\ err[i + 1] = "Error" /\ err[i + 2] = "429"

\* one fetch attempt: (img_stream, err); key is the row's and is left out.
\* returns is FALSE when the call never returns. A response the policy test
\* refuses reaches `import remote_pdb; remote_pdb.set_trace()` first: the
\* import raises where the package is missing and the except clause returns
\* that error; with the package, set_trace() waits for a debugger to attach,
\* and the return after it runs only once one has attached and continued.
download_image(resp) ==
  IF resp.kind = "raise"
  THEN [img_stream |-> None, err |-> Some(resp.err), returns |-> TRUE]
  ELSE IF /\ disallowed_header_directives # None
          /\ disallowed_header_directives[1] # {}
          /\ is_disallowed(resp.headers, user_agent_token, disallowed_header_directives)
  THEN CASE remote_pdb = "missing" ->
              [img_stream |-> None, err |-> Some(ErrNoRemotePdb), returns |-> TRUE]
         [] remote_pdb = "attached" ->
              [img_stream |-> None, err |-> Some(ErrDisallowed), returns |-> TRUE]
         [] remote_pdb = "unattended" ->
              [img_stream |-> None, err |-> None, returns |-> FALSE]
  ELSE [img_stream |-> Some(resp.body), err |-> None, returns |-> TRUE]

\* exponential_backoff *= 2
backoff_mut_add(exponential_backoff) == exponential_backoff + 2
backoff_step(exponential_backoff) == exponential_backoff * 2

\* range(retries + 1)
range_mut_extra(n) == n + 2
retry_range(n) == n + 1

\* the err the loop carries out of an iteration that did not return
carried_mut_first(prev, cur) == IF prev = None THEN cur ELSE prev
carried_err(prev, cur) == cur

\* the for loop of download_image_with_retry from iteration i on.
\* trace records every download_image call and every time.sleep, in order.
RECURSIVE retry_loop(_, _, _, _, _, _, _)
retry_loop(resps, timeout_, retries_, i, exponential_backoff, err, trace) ==
  IF i > retry_range(retries_)
  THEN [img_stream |-> None, err |-> err, trace |-> trace, returns |-> TRUE]
  ELSE
    LET r == download_image(resps[i])
        t1 == Append(trace, [op |-> "download_image", img_stream |-> r.img_stream,
                             err |-> r.err, d |-> 0])
    IN  IF ~r.returns
        THEN [img_stream |-> None, err |-> None, trace |-> t1, returns |-> FALSE]
        ELSE IF r.err # None /\ is_rate_limit_error(r.err[1])
        THEN retry_loop(resps, timeout_, retries_, i + 1,
                        backoff_step(exponential_backoff), carried_err(err, r.err),
                        Append(t1, [op |-> "sleep", img_stream |-> None, err |-> None,
                                    d |-> exponential_backoff * timeout_]))
        ELSE IF r.img_stream # None
             THEN [img_stream |-> r.img_stream, err |-> r.err, trace |-> t1,
                   returns |-> TRUE]
             ELSE retry_loop(resps, timeout_, retries_, i + 1, exponential_backoff,
                             carried_err(err, r.err), t1)

download_image_with_retry(resps, timeout_, retries_) ==
  retry_loop(resps, timeout_, retries_, 1, 2, None, <<>>)

\* all sequences over S of length exactly n
SeqsOfLen(S, n) == [1..n -> S]

\* ------------------------------------------------------------ compute_key
Pow10(n) == 10 ^ n

DigitChars == <<"0", "1", "2", "3", "4", "5", "6", "7", "8", "9">>

\* decimal digits of a natural number, most significant first
RECURSIVE ToDigits(_)
ToDigits(n) ==
  IF n < 10 THEN <<DigitChars[n + 1]>>
  ELSE Append(ToDigits(n \div 10), DigitChars[(n % 10) + 1])

\* "{true_key:0{key_format}d}": zero-padded on the left to at least key_format
ZeroPad_mut_nopad(s, w) == s
ZeroPad(s, w) == IF Len(s) >= w THEN s ELSE [i \in 1..(w - Len(s)) |-> "0"] \o s

compute_key(key, shard_id_, oom_sample_per_shard_, oom_shard_count_) ==
  LET true_key == Pow10(oom_sample_per_shard_) * shard_id_ + key
      key_format == oom_sample_per_shard_ + oom_shard_count_
  IN  ZeroPad(ToDigits(true_key), key_format)

\* math.ceil(math.log10(n)) for n >= 1
MaxOom == 6
CeilLog10(n) == CHOOSE p \in 0..MaxOom : Pow10(p) >= n /\ (p = 0 \/ Pow10(p - 1) < n)

\* ------------------------------------------------------ sample processor
\* hashlib digest of the fetched bytes, as the hexdigest text
hexdigest(algo, body) == <<algo, body>>

\* names hashlib has; getattr(hashlib, name) raises AttributeError otherwise
HashlibNames == {"md5", "sha256"}

\* what the external resizer does with one stream: returns dimensions,
\* returns an error message, or raises
ErrResize == <<"resize", "failed">>
ResizerOutcomes ==
  { [kind |-> "ok", img |-> Some("img"), width |-> Some(8), height |-> Some(8),
     original_width |-> Some(16), original_height |-> Some(16), error_message |-> None],
    [kind |-> "error", img |-> None, width |-> None, height |-> None,
     original_width |-> Some(16), original_height |-> Some(16),
     error_message |-> Some(ErrResize)],
    [kind |-> "raise", img |-> None, width |-> None, height |-> None,
     original_width |-> None, original_height |-> None, error_message |-> None] }

ErrHashMismatch == <<"hash", "mismatch">>

\* test_hash != sample_data[hash_indice]
hash_differs_mut_never(test_hash, stored) == FALSE
hash_differs(test_hash, stored) == test_hash # stored

\* the meta dict as first built: status None, the four dimensions None
meta0_mut_dims(str_key, error_message, compute_hash_) ==
  [key |-> str_key, status |-> None, error_message |-> error_message,
   width |-> Some(0), height |-> Some(0), original_width |-> Some(0),
   original_height |-> Some(0),
   computed_hash |-> None, has_computed_hash |-> (compute_hash_ # None)]
meta0(str_key, error_message, compute_hash_) ==
  [key |-> str_key, status |-> None, error_message |-> error_message,
   width |-> None, height |-> None, original_width |-> None,
   original_height |-> None,
   computed_hash |-> None, has_computed_hash |-> (compute_hash_ # None)]

\* semaphore.release() on a semaphore of value n
release_mut_twice(n) == n + 2
release(n) == n + 1

\* the 5-tuple the function returns; resizer_called records whether the call
\* reached resizer(img_stream, bbox_list, maybe_crop), released how many
\* permits the call gave back to the semaphore on its way out
Result(sample, error_message, s, fd, fr, called, released) ==
  [sample |-> sample, error_message |-> error_message, successes |-> s,
   failed_to_download |-> fd, failed_to_resize |-> fr, resizer_called |-> called,
   released |-> released]

Sample(img, str_key, meta) ==
  Some([img |-> img, key |-> str_key, caption |-> None, meta |-> meta])

\* ------------------------------------------------------- derived locals
Workers == 1..thread_count

\* self.column_list.index(self.verify_hash_type) if it is in column_list else None
hash_indice ==
  IF verify_hash_type # None /\ \E i \in 1..Len(column_list) : column_list[i] = verify_hash_type[1]
  THEN Some((CHOOSE i \in 1..Len(column_list) : column_list[i] = verify_hash_type[1]) - 1)
  ELSE None

oom_sample_per_shard == CeilLog10(number_sample_per_shard)

count == Len(shard_to_dl)

\* download_and_process_image_with_retry, its semaphore.release() calls
\* counted in the result, with the keyword arguments the lambda of download_shard passes (the
\* Downloader's fields and download_shard's locals): key is the row index,
\* sample_data the row, resps what the network answers to the successive
\* attempts, rz what the resizer does if it is called. Init and InitProcess
\* configure no disallowed directives, so every fetch here returns.
download_and_process(key, sample_data, resps, rz) ==
  LET f == download_image_with_retry(resps, timeout, retries)
      str_key == compute_key(key, shard_id, oom_sample_per_shard, oom_shard_count)
      meta == meta0(str_key, f.err, compute_hash)
  IN
  IF f.err # None
  THEN Result(Sample(None, str_key,
                     [meta EXCEPT !.status = Some("failed_to_download"),
                                  !.error_message = f.err]),
              f.err, 0, 1, 0, FALSE, release(0))
  ELSE IF hash_indice # None
          /\ hash_differs(hexdigest(verify_hash_type[1], f.img_stream[1]), sample_data.hash)
  THEN Result(Sample(None, str_key,
                     [meta EXCEPT !.status = Some("failed_to_download"),
                                  !.error_message = Some(ErrHashMismatch)]),
              Some(ErrHashMismatch), 0, 1, 0, FALSE, release(0))
  ELSE IF rz.kind = "raise"
  THEN \* except Exception: sample stays None, the counters as they were
       Result(None, f.err, 0, 0, 0, TRUE, release(0))
  ELSE IF rz.error_message # None
  THEN Result(Sample(None, str_key,
                     [meta EXCEPT !.status = Some("failed_to_resize"),
                                  !.error_message = rz.error_message]),
              rz.error_message, 0, 0, 1, TRUE, release(0))
  ELSE IF compute_hash # None /\ compute_hash[1] \notin HashlibNames
  THEN \* getattr(hashlib, compute_hash) raises after successes += 1
       Result(None, rz.error_message, 1, 0, 0, TRUE, release(0))
  ELSE Result(Sample(rz.img, str_key,
                     [meta EXCEPT !.status = Some("success"),
                                  !.width = rz.width, !.height = rz.height,
                                  !.original_width = rz.original_width,
                                  !.original_height = rz.original_height,
                                  !.computed_hash =
                                     IF compute_hash # None
                                     THEN Some(hexdigest(compute_hash[1], f.img_stream[1]))
                                     ELSE None]),
              rz.error_message, 1, 0, 0, TRUE, release(0))

\* Semaphore(self.thread_count * 2)
semaphore_mut_triple(n) == n * 3
semaphore_size(n) == n * 2

\* rows a shard file can hold under a column list
RowsFor(cols) ==
  IF Len(cols) = 2
  THEN [url : {"u"}, hash : {hexdigest("md5", b) : b \in Bodies}]
  ELSE [url : {"u"}, hash : {None}]

\* shard files of up to MaxRows rows, every row carrying the digest of "b1"
ShardFilesFor(cols) ==
  UNION {SeqsOfLen({r \in RowsFor(cols) : r.hash \in {None, hexdigest("md5", "b1")}}, n) :
           n \in 0..MaxRows}

\* status_dict.increment(k)
increment(d, k) ==
  IF k \in DOMAIN d THEN [d EXCEPT ![k] = @ + 1]
  ELSE [x \in DOMAIN d \cup {k} |-> IF x = k THEN 1 ELSE d[x]]

InitDriver ==
  /\ removed = FALSE
  /\ pc = "start"
  /\ ret = None
  /\ shard_to_dl = <<>>
  /\ successes = 0 /\ failed_to_download = 0 /\ failed_to_resize = 0
  /\ status_dict = <<>>
  /\ stats = None
  /\ semaphore = 0 /\ loader = 0 /\ task_handler = "none"
  /\ inqueue = <<>> /\ outqueue = <<>>
  /\ busy = [w \in Workers |-> None]
  /\ writer = "none" /\ written = <<>> /\ write_failed = None
  /\ fetch_resps = <<>> /\ fetch_ret = None
  /\ proc_in = None /\ proc_ret = None
  /\ hdr_in = None /\ hdr_ret = None
  /\ key_in = None /\ key_ret = None

Init ==
  /\ thread_count \in 1..MaxThreads
  /\ retries = 0
  /\ timeout = 1
  /\ column_list \in {<<"url">>, <<"url", "md5">>}
  /\ verify_hash_type = Some("md5")
  /\ compute_hash \in {None, Some("sha3")}
  /\ number_sample_per_shard = 10
  /\ oom_shard_count = 1
  /\ shard_id = 1
  /\ shard_file \in ShardFilesFor(column_list)
  /\ user_agent_token = None
  /\ disallowed_header_directives = None
  /\ remote_pdb = "missing"
  /\ InitDriver

\* ---------------------------------------------------------- download_shard
\* fs.open .. loader = data_generator(): the rows are read, the counters and
\* the semaphore are created
LoadShard ==
  /\ pc = "start"
  /\ shard_to_dl' = shard_file
  /\ successes' = 0 /\ failed_to_download' = 0 /\ failed_to_resize' = 0
  /\ status_dict' = <<>>
  /\ semaphore' = semaphore_size(thread_count)
  /\ loader' = 0
  /\ pc' = "writer"
  /\ UNCHANGED <<cfg, removed, ret, stats, task_handler, inqueue, busy, outqueue,
                 writer, written, write_failed, fetchv>>

\* the shard cannot be opened or decoded
LoadShardRaises ==
  /\ pc = "start"
  /\ pc' = "raised"
  /\ UNCHANGED <<cfg, removed, ret, shard_to_dl, counters, stats, pool, writer,
                 written, write_failed, fetchv>>

\* self.sample_writer_class(...), ThreadPool(...), imap_unordered(..., loader)
MakeWriter ==
  /\ pc = "writer"
  /\ writer' = "open"
  /\ task_handler' = "RUN"
  /\ pc' = "loop"
  /\ UNCHANGED <<cfg, removed, ret, shard_to_dl, counters, stats, semaphore, loader,
                 inqueue, busy, outqueue, written, write_failed, fetchv>>

MakeWriterRaises ==
  /\ pc = "writer"
  /\ pc' = "raised"
  /\ UNCHANGED <<cfg, removed, ret, shard_to_dl, counters, stats, pool, writer,
                 written, write_failed, fetchv>>

\* the pool's task handler pulls the next row from data_generator:
\* semaphore.acquire(), yield e; the task is queued unless the pool has been
\* terminated, in which case the handler leaves its loop
Dispatch ==
  /\ task_handler \in {"RUN", "TERMINATE"}
  /\ loader < count
  /\ semaphore > 0
  /\ semaphore' = semaphore - 1
  /\ loader' = loader + 1
  /\ IF task_handler = "RUN"
     THEN inqueue' = Append(inqueue, loader) /\ UNCHANGED task_handler
     ELSE task_handler' = "exited" /\ UNCHANGED inqueue
  /\ UNCHANGED <<cfg, removed, pc, ret, shard_to_dl, counters, stats, busy, outqueue,
                 writer, written, write_failed, fetchv>>

\* a pool thread takes the next queued task
WorkerTake(w) ==
  /\ busy[w] = None
  /\ inqueue # <<>>
  /\ busy' = [busy EXCEPT ![w] = Some(Head(inqueue))]
  /\ inqueue' = Tail(inqueue)
  /\ UNCHANGED <<cfg, removed, pc, ret, shard_to_dl, counters, stats, semaphore, loader,
                 task_handler, outqueue, writer, written, write_failed, fetchv>>

\* what download_and_process_image_with_retry can return for row key, over
\* every way the network can answer the attempts and the resizer can behave
RowResults(key) ==
  { download_and_process(key, shard_to_dl[key + 1], resps, rz) :
      resps \in SeqsOfLen(ShardResponses, retries + 1), rz \in ResizerOutcomes }

\* the pool thread runs download_and_process_image_with_retry on its row:
\* the semaphore gets the permits the call released; the 5-tuple goes to the
\* driver unless the pool has been terminated
WorkerRun_mut_writes(w) ==
  /\ busy[w] # None
  /\ \E res \in RowResults(busy[w][1]) :
       /\ written' = IF res.sample # None THEN Append(written, res.sample[1]) ELSE written
       /\ semaphore' = semaphore + res.released
  /\ busy' = [busy EXCEPT ![w] = None]
  /\ UNCHANGED <<cfg, removed, pc, ret, shard_to_dl, counters, stats, loader,
                 task_handler, inqueue, outqueue, writer, write_failed, fetchv>>
WorkerRun(w) ==
  /\ busy[w] # None
  /\ \E res \in RowResults(busy[w][1]) :
       /\ outqueue' = IF task_handler = "RUN" THEN Append(outqueue, res) ELSE outqueue
       /\ semaphore' = semaphore + res.released
  /\ busy' = [busy EXCEPT ![w] = None]
  /\ UNCHANGED <<cfg, removed, pc, ret, shard_to_dl, counters, stats, loader,
                 task_handler, inqueue, writer, written, write_failed, fetchv>>

\* the body of the for loop up to status_dict.increment, for the next result
Tally(r) ==
  /\ successes' = successes + r.successes
  /\ failed_to_download' = failed_to_download + r.failed_to_download
  /\ failed_to_resize' = failed_to_resize + r.failed_to_resize
  /\ status_dict' = increment(status_dict,
                              IF r.error_message # None THEN r.error_message[1]
                              ELSE <<"success">>)
  /\ outqueue' = Tail(outqueue)

\* one iteration of the for loop: sample_writer.write(*sample) returns
ConsumeWrite ==
  /\ pc = "loop"
  /\ outqueue # <<>>
  /\ Head(outqueue).sample # None
  /\ Tally(Head(outqueue))
  /\ written' = Append(written, Head(outqueue).sample[1])
  /\ UNCHANGED <<cfg, removed, pc, ret, shard_to_dl, stats, semaphore, loader,
                 task_handler, inqueue, busy, writer, write_failed, fetchv>>

\* one iteration of the for loop: sample_writer.write(*sample) raises; the
\* except clause prints and the loop is over
ConsumeWriteRaises ==
  /\ pc = "loop"
  /\ outqueue # <<>>
  /\ Head(outqueue).sample # None
  /\ Tally(Head(outqueue))
  /\ write_failed' = Head(outqueue).sample
  /\ pc' = "close"
  /\ UNCHANGED <<cfg, removed, ret, shard_to_dl, stats, semaphore, loader,
                 task_handler, inqueue, busy, writer, written, fetchv>>

\* one iteration of the for loop with sample None: *sample raises TypeError
ConsumeNoSample ==
  /\ pc = "loop"
  /\ outqueue # <<>>
  /\ Head(outqueue).sample = None
  /\ Tally(Head(outqueue))
  /\ pc' = "close"
  /\ UNCHANGED <<cfg, removed, ret, shard_to_dl, stats, semaphore, loader,
                 task_handler, inqueue, busy, writer, written, write_failed, fetchv>>

\* imap_unordered is exhausted: every row was yielded and its result consumed
LoopEnd ==
  /\ pc = "loop"
  /\ loader = count
  /\ inqueue = <<>>
  /\ \A w \in Workers : busy[w] = None
  /\ outqueue = <<>>
  /\ pc' = "close"
  /\ UNCHANGED <<cfg, removed, ret, shard_to_dl, counters, stats, pool, writer,
                 written, write_failed, fetchv>>

\* sample_writer.close()
Close_mut_skip ==
  /\ pc = "close"
  /\ pc' = "terminate"
  /\ UNCHANGED <<cfg, removed, ret, shard_to_dl, counters, stats, pool, writer, written,
                 write_failed, fetchv>>
Close ==
  /\ pc = "close"
  /\ writer' = "closed"
  /\ pc' = "terminate"
  /\ UNCHANGED <<cfg, removed, ret, shard_to_dl, counters, stats, pool, written, write_failed, fetchv>>

\* thread_pool.terminate(): the handlers are told to stop, queued tasks are
\* thrown away
PoolTerminate ==
  /\ task_handler' = IF task_handler = "RUN" /\ loader < count THEN "TERMINATE"
                     ELSE "exited"
  /\ inqueue' = <<>>
  /\ UNCHANGED <<semaphore, loader, busy, outqueue>>

\* sample_writer.close() raises: the with block terminates the pool and the
\* exception leaves download_shard
CloseRaises ==
  /\ pc = "close"
  /\ PoolTerminate
  /\ pc' = "raised"
  /\ UNCHANGED <<cfg, removed, ret, shard_to_dl, counters, stats, writer, written, write_failed,
                 fetchv>>

Terminate ==
  /\ pc = "terminate"
  /\ PoolTerminate
  /\ pc' = "join"
  /\ UNCHANGED <<cfg, removed, ret, shard_to_dl, counters, stats, writer, written, write_failed,
                 fetchv>>

\* terminate() and join() return once the task handler and the pool threads
\* have ended
Join ==
  /\ pc = "join"
  /\ task_handler = "exited"
  /\ \A w \in Workers : busy[w] = None
  /\ pc' = "stats"
  /\ UNCHANGED <<cfg, removed, ret, shard_to_dl, counters, stats, pool, writer,
                 written, write_failed, fetchv>>

\* write_stats(output_folder, shard_id, count, successes, ...)
WriteStats ==
  /\ pc = "stats"
  /\ stats' = Some([count |-> count, successes |-> successes,
                    failed_to_download |-> failed_to_download,
                    failed_to_resize |-> failed_to_resize,
                    status_dict |-> status_dict])
  /\ pc' = "rm"
  /\ UNCHANGED <<cfg, removed, ret, shard_to_dl, counters, pool, writer, written, write_failed,
                 fetchv>>

WriteStatsRaises ==
  /\ pc = "stats"
  /\ pc' = "raised"
  /\ UNCHANGED <<cfg, removed, ret, shard_to_dl, counters, stats, pool, writer,
                 written, write_failed, fetchv>>

\* fs.rm(shard_path)
Rm ==
  /\ pc = "rm"
  /\ removed' = TRUE
  /\ pc' = "done"
  /\ UNCHANGED <<cfg, ret, shard_to_dl, counters, stats, pool, writer, written, write_failed, fetchv>>

RmRaises ==
  /\ pc = "rm"
  /\ pc' = "raised"
  /\ UNCHANGED <<cfg, removed, ret, shard_to_dl, counters, stats, pool, writer,
                 written, write_failed, fetchv>>

\* the first component of what __call__ returns: True from the try body,
\* False from the except clause
call_ok_mut_true(p) == TRUE
call_ok(p) == p = "done"

\* Downloader.__call__: (True, row) if download_shard returned, (False, row)
\* if it raised
Call ==
  /\ pc \in {"done", "raised"}
  /\ ret' = Some([ok |-> call_ok(pc), row |-> <<shard_id, shard_file>>])
  /\ pc' = "returned"
  /\ UNCHANGED <<cfg, removed, shard_to_dl, counters, stats, pool, writer, written, write_failed,
                 fetchv>>

Next ==
  \/ LoadShard
  \/ LoadShardRaises
  \/ MakeWriter
  \/ MakeWriterRaises
  \/ Dispatch
  \/ \E w \in Workers : WorkerTake(w)
  \/ \E w \in Workers : WorkerRun(w)
  \/ ConsumeWrite
  \/ ConsumeWriteRaises
  \/ ConsumeNoSample
  \/ LoopEnd
  \/ Close
  \/ CloseRaises
  \/ Terminate
  \/ Join
  \/ WriteStats
  \/ WriteStatsRaises
  \/ Rm
  \/ RmRaises
  \/ Call

Spec == Init /\ [][Next]_vars

\* Scheduling: every thread that can take a step eventually takes one. The
\* driver thread's next statement runs (returning or raising), the pool's
\* task handler pulls the next row when a permit is free, a pool thread with
\* a queued task takes it, and a call of
\* download_and_process_image_with_retry that has started returns.
Fairness ==
  /\ WF_vars(LoadShard \/ LoadShardRaises)
  /\ WF_vars(MakeWriter \/ MakeWriterRaises)
  /\ WF_vars(Dispatch)
  /\ \A w \in 1..MaxThreads : WF_vars(w \in Workers /\ WorkerTake(w))
  /\ \A w \in 1..MaxThreads : WF_vars(w \in Workers /\ WorkerRun(w))
  /\ WF_vars(ConsumeWrite \/ ConsumeWriteRaises \/ ConsumeNoSample)
  /\ WF_vars(LoopEnd)
  /\ WF_vars(Close \/ CloseRaises)
  /\ WF_vars(Terminate)
  /\ WF_vars(Join)
  /\ WF_vars(WriteStats \/ WriteStatsRaises)
  /\ WF_vars(Rm \/ RmRaises)
  /\ WF_vars(Call)

SpecLive == Init /\ [][Next]_vars /\ Fairness

\* ------------------------------------- download_image_with_retry on its own
InitFetch ==
  /\ thread_count = 1
  /\ retries \in 0..MaxRetries
  /\ timeout \in 1..MaxTimeout
  /\ column_list = <<"url">>
  /\ verify_hash_type = Some("md5")
  /\ compute_hash = None
  /\ number_sample_per_shard = 10
  /\ oom_shard_count = 1
  /\ shard_id = 1
  /\ shard_file = <<>>
  /\ user_agent_token = None
  /\ disallowed_header_directives = None
  /\ remote_pdb = "missing"
  /\ InitDriver

\* download_image_with_retry(row, timeout, retries, ...) is called; resps is
\* what the network answers to successive requests for the url, one answer
\* more than the loop is meant to ask for
FetchRow ==
  /\ fetch_ret = None
  /\ \E resps \in SeqsOfLen(Responses, retries + 2) :
       /\ fetch_resps' = resps
       /\ fetch_ret' = Some(download_image_with_retry(resps, timeout, retries))
  /\ UNCHANGED <<cfg, removed, pc, ret, shard_to_dl, counters, stats, pool, writer,
                 written, write_failed, proc_in, proc_ret, hdr_in, hdr_ret, key_in,
                 key_ret>>

NextFetch == FetchRow

SpecFetch == InitFetch /\ [][NextFetch]_vars

\* ------------------------- download_and_process_image_with_retry on its own
InitProcess ==
  /\ thread_count = 1
  /\ retries \in 0..MaxProcRetries
  /\ timeout = 1
  /\ column_list \in {<<"url">>, <<"url", "md5">>}
  /\ verify_hash_type = Some("md5")
  /\ compute_hash \in {None, Some("sha256"), Some("sha3")}
  /\ number_sample_per_shard = 10
  /\ oom_shard_count = 1
  /\ shard_id \in {0, 1}
  /\ shard_file = <<>>
  /\ user_agent_token = None
  /\ disallowed_header_directives = None
  /\ remote_pdb = "missing"
  /\ InitDriver

\* the function is called on row 0 of a one-row shard; the network answers
\* its attempts with resps and the resizer, if called, does rz
ProcessRow ==
  /\ proc_ret = None
  /\ \E sample_data \in RowsFor(column_list),
        resps \in SeqsOfLen(Responses, retries + 1), rz \in ResizerOutcomes :
       /\ proc_in' = Some([sample_data |-> sample_data, resps |-> resps, rz |-> rz])
       /\ proc_ret' = Some(download_and_process(0, sample_data, resps, rz))
  /\ UNCHANGED <<cfg, removed, pc, ret, shard_to_dl, counters, stats, pool, writer,
                 written, write_failed, fetch_resps, fetch_ret, hdr_in, hdr_ret, key_in,
                 key_ret>>

NextProcess == ProcessRow

SpecProcess == InitProcess /\ [][NextProcess]_vars

\* -------------------------------------------------- download_image on its own
\* the most X-Robots-Tag headers one response carries
MaxHeaders == 1

\* X-Robots-Tag headers a server sends: an optional agent token, the
\* directives, written with or without blanks after the separators
RobotsTags ==
  [ua : {None, Some("img2dataset"), Some("Img2Dataset"), Some("otherbot")},
   dirs : {<<"noai">>, <<"NoIndex">>, <<"all", "noai">>, <<"all">>},
   spaced : BOOLEAN]

\* the directives of a header as text, separated by commas
RECURSIVE RenderDirs(_, _)
RenderDirs(dirs, sp) ==
  IF Len(dirs) = 1 THEN <<dirs[1]>>
  ELSE <<dirs[1], ",">> \o sp \o RenderDirs(Tail(dirs), sp)

\* the header value as the server writes it
Render(t) ==
  LET sp == IF t.spaced THEN <<" ">> ELSE <<>>
  IN  (IF t.ua = None THEN <<>> ELSE <<t.ua[1], ":">> \o sp) \o RenderDirs(t.dirs, sp)

\* a Downloader with or without an agent token and a disallowed set, both
\* as __init__ stores them (stripped, lower case), on a machine where
\* remote_pdb is missing, or present with or without someone attaching
InitHeader ==
  /\ thread_count = 1
  /\ retries = 0
  /\ timeout = 1
  /\ column_list = <<"url">>
  /\ verify_hash_type = None
  /\ compute_hash = None
  /\ number_sample_per_shard = 10
  /\ oom_shard_count = 1
  /\ shard_id = 1
  /\ shard_file = <<>>
  /\ user_agent_token \in {None, Some(<<"img2dataset">>)}
  /\ disallowed_header_directives \in
       {None, Some({}), Some({<<"noai">>}), Some({<<"noai">>, <<"noindex">>})}
  /\ remote_pdb \in {"missing", "attached", "unattended"}
  /\ InitDriver

\* download_image(row, timeout, user_agent_token, disallowed_header_directives)
\* is called and the server answers with tags as X-Robots-Tag headers
HeaderRow ==
  /\ hdr_ret = None
  /\ \E n \in 0..MaxHeaders : \E tags \in SeqsOfLen(RobotsTags, n) : \E body \in Bodies :
       /\ hdr_in' = Some([tags |-> tags, body |-> body])
       /\ hdr_ret' = Some(download_image([kind |-> "body", body |-> body,
                                          headers |-> [i \in 1..n |-> Render(tags[i])]]))
  /\ UNCHANGED <<cfg, removed, pc, ret, shard_to_dl, counters, stats, pool, writer,
                 written, write_failed, fetch_resps, fetch_ret, proc_in, proc_ret,
                 key_in, key_ret>>

NextHeader == HeaderRow

SpecHeader == InitHeader /\ [][NextHeader]_vars

\* ---------------------------------------------------- compute_key on its own
\* the widest key drawn: oom_sample_per_shard + oom_shard_count <= MaxKeyWidth
MaxKeyWidth == 2

\* a Downloader whose number_sample_per_shard is a power of ten, so that
\* oom_sample_per_shard = ceil(log10(number_sample_per_shard)) takes every
\* value P, with every shard id that has at most oom_shard_count digits
InitKey ==
  /\ thread_count = 1
  /\ retries = 0
  /\ timeout = 1
  /\ column_list = <<"url">>
  /\ verify_hash_type = None
  /\ compute_hash = None
  /\ \E p \in 0..MaxKeyWidth :
       /\ number_sample_per_shard = Pow10(p)
       /\ oom_shard_count \in 0..(MaxKeyWidth - p)
  /\ shard_id \in 0..(Pow10(oom_shard_count) - 1)
  /\ shard_file = <<>>
  /\ user_agent_token = None
  /\ disallowed_header_directives = None
  /\ remote_pdb = "missing"
  /\ InitDriver

\* str_key = compute_key(key, shard_id, oom_sample_per_shard, oom_shard_count)
\* for one row index below 10^oom_sample_per_shard
KeyRow ==
  /\ key_ret = None
  /\ \E key \in 0..(Pow10(oom_sample_per_shard) - 1) :
       /\ key_in' = Some(key)
       /\ key_ret' = Some(compute_key(key, shard_id, oom_sample_per_shard, oom_shard_count))
  /\ UNCHANGED <<cfg, removed, pc, ret, shard_to_dl, counters, stats, pool, writer,
                 written, write_failed, fetch_resps, fetch_ret, proc_in, proc_ret,
                 hdr_in, hdr_ret>>

NextKey == KeyRow

SpecKey == InitKey /\ [][NextKey]_vars

\* ===================================================== retrying fetcher claims
\* the call under SpecFetch: what it returned and the events it went through
FetchDone == fetch_ret # None
FetchTrace == fetch_ret[1].trace
IsCall(e) == e.op = "download_image"
IsSleep(e) == e.op = "sleep"
CallIdx == {i \in 1..Len(FetchTrace) : IsCall(FetchTrace[i])}
SleepIdx == {i \in 1..Len(FetchTrace) : IsSleep(FetchTrace[i])}
FailedCall(e) == IsCall(e) /\ e.img_stream = None
\* the error text of a failed attempt names HTTP status 429
Names429(e) ==
  \E i \in 1..(Len(e.err[1]) - 2) :
    e.err[1][i] = "HTTP" /\ e.err[1][i + 1] = "Error" /\ e.err[1][i + 2] = "429"
CallsUpTo(i) == Cardinality({j \in CallIdx : j <= i})
\* the network answers the first k requests with a 429 error and the next with a body
Leading429(k) ==
  /\ \A i \in 1..k : fetch_resps[i].kind = "raise"
                     /\ fetch_resps[i].err \in {ErrRateLimit, ErrWrapped429}
  /\ fetch_resps[k + 1].kind = "body"

\* C5 as stated: once an attempt has failed with an error that is not a
\* rate-limit signal, download_image is not called again for the row.
C5_NoAttemptAfterOtherError ==
  FetchDone =>
    \A i \in CallIdx :
      (FailedCall(FetchTrace[i]) /\ ~Names429(FetchTrace[i]))
        => \A j \in CallIdx : j <= i

\* C5 amended: after an attempt that failed with an error that is not a
\* rate-limit signal there is no sleep; while fewer than retries + 1 attempts
\* have been made the next event is another attempt, and only after attempt
\* retries + 1 does the loop stop, returning that failure.
C5_OtherErrorRetriedWithoutSleep ==
  FetchDone =>
    \A i \in CallIdx :
      (FailedCall(FetchTrace[i]) /\ ~Names429(FetchTrace[i]))
        => IF CallsUpTo(i) < retries + 1
           THEN i < Len(FetchTrace) /\ IsCall(FetchTrace[i + 1])
           ELSE /\ i = Len(FetchTrace)
                /\ fetch_ret[1].img_stream = None
                /\ fetch_ret[1].err = FetchTrace[i].err

\* a 404 on the first attempt was followed by a second attempt
C5_Witness ==
  /\ FetchDone
  /\ retries >= 1
  /\ Len(FetchTrace) >= 2
  /\ FailedCall(FetchTrace[1]) /\ FetchTrace[1].err = Some(ErrNotFound)
  /\ IsCall(FetchTrace[2])

\* C7: k rate-limit failures followed by a success, with retries >= k, give
\* exactly k + 1 attempts and a success, and the sleep before attempt i + 1
\* lasts 2^i * timeout.
C7_BackoffSchedule ==
  FetchDone =>
    \A k \in 0..retries :
      Leading429(k) =>
        /\ Cardinality(CallIdx) = k + 1
        /\ Len(FetchTrace) = 2 * k + 1
        /\ fetch_ret[1].img_stream = Some(fetch_resps[k + 1].body)
        /\ fetch_ret[1].err = None
        /\ \A i \in 1..k :
             /\ IsCall(FetchTrace[2 * i - 1])
             /\ IsSleep(FetchTrace[2 * i])
             /\ FetchTrace[2 * i].d = (2 ^ i) * timeout
        /\ IsCall(FetchTrace[2 * k + 1])

\* three 429 answers, then a body, with retries = 3
C7_Witness ==
  /\ FetchDone
  /\ retries = 3
  /\ Leading429(3)
  /\ Cardinality(SleepIdx) = 3

\* C8: at most retries + 1 calls of download_image; the first successful
\* call is the last event, and its payload is returned with a null error.
C8_AttemptsBoundedStopOnSuccess ==
  FetchDone =>
    /\ Cardinality(CallIdx) <= retries + 1
    /\ \A i \in CallIdx :
         FetchTrace[i].img_stream # None
           => /\ i = Len(FetchTrace)
              /\ fetch_ret[1].img_stream = FetchTrace[i].img_stream
              /\ fetch_ret[1].err = None

\* a success on the second of at most three attempts
C8_Witness ==
  /\ FetchDone
  /\ retries = 2
  /\ Cardinality(CallIdx) = 2
  /\ fetch_ret[1].img_stream # None

\* C9: if every attempt failed, the outcome has a null payload and the error
\* of the last attempt made; no outcome has both a payload and an error.
C9_LastErrorWins ==
  FetchDone =>
    /\ ~(fetch_ret[1].img_stream # None /\ fetch_ret[1].err # None)
    /\ (\A i \in CallIdx : FailedCall(FetchTrace[i]))
         => /\ fetch_ret[1].img_stream = None
            /\ fetch_ret[1].err # None
            /\ \A i \in CallIdx :
                 (\A j \in CallIdx : j <= i) => fetch_ret[1].err = FetchTrace[i].err

\* every attempt failed and the first and the last error differ
C9_Witness ==
  /\ FetchDone
  /\ Cardinality(CallIdx) >= 2
  /\ \A i \in CallIdx : FailedCall(FetchTrace[i])
  /\ fetch_ret[1].err # FetchTrace[1].err

\* ===================================================== sample processor claims
\* the call under SpecProcess: its inputs, its fetch outcome, what it returned
ProcDone == proc_ret # None
ProcFetch == download_image_with_retry(proc_in[1].resps, timeout, retries)
ProcSample == proc_ret[1].sample
\* the fetch returned bytes whose md5 digest is not the one stored in the row
ProcDigestDiffers ==
  /\ ProcFetch.img_stream # None
  /\ <<"md5", ProcFetch.img_stream[1]>> # proc_in[1].sample_data.hash

\* C6: whatever happens while a fetched row is processed, the function
\* returns a sample (never None) whose payload is null unless the status is
\* success, and whose metadata has a status; a failure has an error message.
C6_ExceptionBecomesRejected ==
  ProcDone =>
    /\ ProcSample # None
    /\ ProcSample[1].meta.status # None
    /\ (ProcSample[1].meta.status # Some("success")
          => ProcSample[1].img = None /\ ProcSample[1].meta.error_message # None)

\* C10: with a hash column configured and a digest that differs from the
\* stored one, the resizer is not called and the result is a rejection:
\* null payload, status failed_to_download, message "hash mismatch",
\* failed_to_download delta 1.
C10_HashMismatchRejected ==
  (ProcDone /\ Len(column_list) = 2 /\ ProcDigestDiffers) =>
    /\ ~proc_ret[1].resizer_called
    /\ ProcSample # None
    /\ ProcSample[1].img = None
    /\ ProcSample[1].meta.status = Some("failed_to_download")
    /\ ProcSample[1].meta.error_message = Some(<<"hash", "mismatch">>)
    /\ proc_ret[1].error_message = Some(<<"hash", "mismatch">>)
    /\ proc_ret[1].failed_to_download = 1
    /\ proc_ret[1].successes = 0
    /\ proc_ret[1].failed_to_resize = 0

\* a row storing the digest of "b1" whose fetch returned "b2", with a
\* resizer that would have succeeded
C10_Witness ==
  /\ ProcDone
  /\ Len(column_list) = 2
  /\ ProcDigestDiffers
  /\ proc_in[1].rz.kind = "ok"
  /\ proc_in[1].sample_data.hash = <<"md5", "b1">>

\* ========================================================= shard driver claims
Rows == 0..(count - 1)
\* the key download_shard gives to row k
KeyOf(k) == compute_key(k, shard_id, oom_sample_per_shard, oom_shard_count)
\* how many times a result for row k was written
TimesWritten(k) == Cardinality({i \in 1..Len(written) : written[i].key = KeyOf(k)})
Busy == {w \in Workers : busy[w] # None}

\* C1: when download_shard has left the scheduling loop and closed the
\* writer, every row of the shard has had exactly one result written.
C1_EveryRowWrittenOnce ==
  writer = "closed" => \A k \in Rows : TimesWritten(k) = 1

\* C2: the counters handed to write_stats add up to the number of rows.
C2_CountersSumToCount ==
  stats # None =>
    stats[1].successes + stats[1].failed_to_download + stats[1].failed_to_resize
      = stats[1].count

\* C3: the shard's storage object is removed only when every row has a
\* result that was handed to the writer.
C3_RemovedOnlyWhenAllWritten ==
  removed => \A k \in Rows : TimesWritten(k) >= 1

\* C4 as stated: the samples being processed plus the results that wait for
\* the driver loop (not yet passed to sample_writer.write) number at most
\* 2 * thread_count.  Stated for the runs on which every result so far
\* carries a sample, so that no exception is involved.
C4_UnwrittenBounded ==
  (\A i \in 1..Len(outqueue) : outqueue[i].sample # None)
    => Cardinality(Busy) + Len(outqueue) <= 2 * thread_count

\* C4 amended: the rows handed out by data_generator whose processing has
\* not finished (queued for a pool thread or running in one) number at most
\* 2 * thread_count; results that wait for the driver are outside the bound.
C4_DispatchedUnfinishedBounded ==
  Len(inqueue) + Cardinality(Busy) <= 2 * thread_count

\* the gate is saturated: 2 * thread_count rows are queued or running, the
\* generator has more rows and no permit is left
C4_Witness ==
  /\ pc = "loop"
  /\ Len(inqueue) + Cardinality(Busy) = 2 * thread_count
  /\ semaphore = 0
  /\ loader < count

\* ============================================== __call__ and cleanup ordering
\* C11: __call__ turns every exception of download_shard into (False, row)
\* with the request it was given, the shard then still being in storage,
\* and returns (True, row) when download_shard returned.
C11_CallNeverRaises ==
  [][ /\ (pc = "raised" => ~removed /\ ~removed')
      /\ (ret' # ret =>
            /\ pc \in {"done", "raised"}
            /\ pc' = "returned"
            /\ ret' = Some([ok |-> (pc = "done"), row |-> <<shard_id, shard_file>>])
            /\ removed' = removed)
      /\ (pc = "returned" => pc' = "returned" /\ ret' = ret) ]_vars

\* __call__ returned (False, row) after write_stats had already been called
C11_Witness ==
  /\ pc = "returned"
  /\ ret = Some([ok |-> FALSE, row |-> <<shard_id, shard_file>>])
  /\ stats # None
  /\ ~removed

\* C12: the shard is removed only after sample_writer.close() has returned
\* and write_stats has been called; a run on which close() raised never
\* removes it.
C12_RemoveAfterClose ==
  /\ (removed => writer = "closed" /\ stats # None)
  /\ (writer # "closed" /\ pc \in {"raised", "returned"} => ~removed)

\* the shard of a non-empty shard file has been removed
C12_Witness ==
  /\ removed
  /\ count >= 1
  /\ Len(written) = count

\* ================================================== shape of the records
\* the samples sample_writer.write was called with, in order: those it
\* stored and the one on which it raised
HandedToWriter == written \o write_failed

\* C13: every record handed to the writer has a status among success,
\* failed_to_download and failed_to_resize; its error message is null exactly
\* when the status is success; its payload is null unless the status is
\* success; on failed_to_download the four dimensions are null.
C13_RecordShape ==
  \A i \in 1..Len(HandedToWriter) :
    LET s == HandedToWriter[i]
        m == s.meta
    IN /\ m.status \in {Some("success"), Some("failed_to_download"), Some("failed_to_resize")}
       /\ (m.error_message = None) <=> (m.status = Some("success"))
       /\ (m.status # Some("success") => s.img = None)
       /\ (m.status = Some("failed_to_download") =>
             /\ m.width = None /\ m.height = None
             /\ m.original_width = None /\ m.original_height = None)

\* the writer received a failed download, a failed resize and a success
C13_Witness ==
  /\ \E i \in 1..Len(HandedToWriter) :
       HandedToWriter[i].meta.status = Some("failed_to_download")
  /\ \E i \in 1..Len(HandedToWriter) :
       HandedToWriter[i].meta.status = Some("failed_to_resize")
  /\ \E i \in 1..Len(HandedToWriter) :
       /\ HandedToWriter[i].meta.status = Some("success")
       /\ HandedToWriter[i].img # None
  /\ write_failed # None

\* ======================================================== synthetic key claims
\* value of a decimal digit character
DigitValue(c) == CHOOSE d \in 0..9 : DigitChars[d + 1] = c

\* a < b in the lexicographic order of strings of digits
LexLess(a, b) ==
  \/ \E i \in 1..Len(a) :
       /\ i <= Len(b)
       /\ \A j \in 1..(i - 1) : a[j] = b[j]
       /\ DigitValue(a[i]) < DigitValue(b[i])
  \/ /\ Len(a) < Len(b)
     /\ \A j \in 1..Len(a) : a[j] = b[j]

\* (shard_id, row_index) pairs in numeric order
PairLess(s1, r1, s2, r2) == s1 < s2 \/ (s1 = s2 /\ r1 < r2)

\* the key computed under SpecKey is injective and order-preserving on the
\* domain of its P and S
KeyInjectiveOrdered ==
  LET P == oom_sample_per_shard
      S == oom_shard_count
      k == key_ret[1]
  IN \A s2 \in 0..(Pow10(S) - 1), r2 \in 0..(Pow10(P) - 1) :
       LET k2 == compute_key(r2, s2, P, S)
       IN /\ (<<s2, r2>> # <<shard_id, key_in[1]>> => k2 # k)
          /\ (LexLess(k, k2) <=> PairLess(shard_id, key_in[1], s2, r2))

\* C14: for P = oom_sample_per_shard and S = oom_shard_count, a row index
\* below 10^P and a shard id below 10^S give a key of exactly P + S
\* characters; any other pair of that domain gives a different key, and the
\* keys compare lexicographically as the pairs compare numerically.
C14_KeyFixedWidthInjective ==
  key_ret # None =>
    /\ Len(key_ret[1]) = oom_sample_per_shard + oom_shard_count
    /\ KeyInjectiveOrdered

\* C14 as amended: the key has P + S characters, or one character when
\* P + S = 0; injectivity and order are as claimed.
C14_KeyWidthInjective ==
  key_ret # None =>
    /\ Len(key_ret[1]) = (IF oom_sample_per_shard + oom_shard_count = 0 THEN 1
                          ELSE oom_sample_per_shard + oom_shard_count)
    /\ KeyInjectiveOrdered

\* row 5 of shard 1 with one digit each: the key is "15"
C14_Witness ==
  /\ key_ret = Some(<<"1", "5">>)
  /\ key_in = Some(5)
  /\ shard_id = 1
  /\ oom_sample_per_shard = 1 /\ oom_shard_count = 1

\* ======================================================== usage-policy claims
\* tag t names a directive of the disallowed set and is scoped to no agent,
\* or to the caller's own
TagBlocks(t) ==
  /\ \E i \in 1..Len(t.dirs) : <<Lower(t.dirs[i])>> \in disallowed_header_directives[1]
  /\ (t.ua = None \/ Some(<<Lower(t.ua[1])>>) = user_agent_token)

\* the response under SpecHeader is one the policy refuses
PolicyRefuses ==
  /\ disallowed_header_directives # None
  /\ disallowed_header_directives[1] # {}
  /\ \E i \in 1..Len(hdr_in[1].tags) : TagBlocks(hdr_in[1].tags[i])

\* C15: download_image returns the failure 'Use of image disallowed by
\* X-Robots-Tag directive' exactly when the disallowed set is non-empty and
\* some X-Robots-Tag header names a directive of the set with no agent token
\* or with the caller's; otherwise it returns the body.
C15_BlockedIffDisallowed ==
  hdr_ret # None =>
    /\ hdr_ret[1].returns
    /\ (PolicyRefuses =>
          hdr_ret[1].img_stream = None /\ hdr_ret[1].err = Some(ErrDisallowed))
    /\ (~PolicyRefuses =>
          hdr_ret[1].img_stream = Some(hdr_in[1].body) /\ hdr_ret[1].err = None)

\* ============================================================ gate discipline
\* C16: the generator takes exactly one permit for each row it hands out,
\* each finished call of download_and_process_image_with_retry gives exactly
\* one back whatever its exit path, and nothing else moves the semaphore; so
\* its value stays within 0..2 * thread_count and the rows handed out and
\* not yet finished number at most the permits taken.
C16_GateDiscipline ==
  [][ /\ (loader' # loader /\ pc # "start" =>
            loader' = loader + 1 /\ semaphore' = semaphore - 1)
      /\ (\A w \in Workers : busy[w] # None /\ busy'[w] = None =>
            semaphore' = semaphore + 1)
      /\ (semaphore' # semaphore /\ pc # "start" =>
            \/ loader' # loader
            \/ \E w \in Workers : busy[w] # None /\ busy'[w] = None)
      /\ semaphore' \in 0..(2 * thread_count)
      /\ Len(inqueue') + Cardinality({w \in Workers : busy'[w] # None})
           <= 2 * thread_count - semaphore' ]_vars

\* every permit is back after all rows went through, some calls having left
\* by the except clause and some with a sample
C16_Witness ==
  /\ loader = count
  /\ count >= 2
  /\ semaphore = 2 * thread_count
  /\ \E i \in 1..Len(outqueue) : outqueue[i].sample = None
  /\ \E i \in 1..Len(outqueue) : outqueue[i].sample # None

\* ================================================================== progress
\* the generator waits in semaphore.acquire()
ProducerBlocked ==
  /\ task_handler \in {"RUN", "TERMINATE"}
  /\ loader < count
  /\ semaphore = 0

\* row k is being processed by a pool thread
RowRunning(k) == \E w \in Workers : busy[w] = Some(k)

\* C17: under fair scheduling, with every call terminating and the writer
\* accepting every record, a generator waiting for a permit gets one, every
\* row of the shard not yet handed out is eventually processed by a pool
\* thread, and the for loop ends with sample_writer.close() being reached.
C17_NoGateDeadlock ==
  [](write_failed = None) =>
    /\ (ProducerBlocked ~> ~ProducerBlocked)
    /\ \A k \in 0..(MaxRows - 1) :
         (pc = "loop" /\ loader <= k /\ k < count) ~> RowRunning(k)
    /\ ((pc = "loop") ~> (pc = "close"))

\* ================================================= who calls the writer, when
\* the call of download_and_process_image_with_retry for the row with key
\* str_key has returned: the row was handed out and is neither queued nor
\* running, so its permit is back
CallFinished(str_key) ==
  \E k \in Rows :
    /\ KeyOf(k) = str_key
    /\ k < loader
    /\ \A i \in 1..Len(inqueue) : inqueue[i] # k
    /\ \A w \in Workers : busy[w] # Some(k)

\* C18: the writer and the counters change only in steps of the driver
\* thread (no pool thread or generator step touches them), one record per
\* step, and the row of a record passed to sample_writer.write has already
\* had its permit released.
C18_ReleaseThenSerializedWrite ==
  [][ /\ (\/ written' # written \/ write_failed' # write_failed
          \/ writer' # writer \/ counters' # counters)
           => /\ pc \in {"writer", "loop", "close"}
              /\ busy' = busy /\ semaphore' = semaphore /\ loader' = loader
      /\ written' # written
           => /\ Len(written') = Len(written) + 1
              /\ SubSeq(written', 1, Len(written)) = written
              /\ write_failed' = write_failed
              /\ CallFinished(written'[Len(written')].key)
      /\ write_failed' # write_failed
           => /\ write_failed = None /\ write_failed' # None
              /\ CallFinished(write_failed'[1].key) ]_vars

\* a record has been written while a pool thread is processing another row
C18_Witness ==
  /\ pc = "loop"
  /\ Len(written) >= 1
  /\ Busy # {}
  /\ semaphore >= 1

\* ===================================================== counters and records
\* how many records with status st sample_writer.write was called with
HandedWithStatus(st) ==
  Cardinality({i \in 1..Len(HandedToWriter) : HandedToWriter[i].meta.status = Some(st)})

\* the 'success' tally of the status distribution given to write_stats
SuccessTally ==
  IF <<"success">> \in DOMAIN stats[1].status_dict
  THEN stats[1].status_dict[<<"success">>] ELSE 0

\* C19: when write_stats is called, successes is the number of
\* sample_writer.write calls made with a payload and status success,
\* failed_to_download and failed_to_resize are the numbers of records with
\* those statuses, and the 'success' tally of the status distribution is
\* successes.
C19_CountersMatchWritten ==
  stats # None =>
    /\ stats[1].successes =
         Cardinality({i \in 1..Len(HandedToWriter) :
                        /\ HandedToWriter[i].meta.status = Some("success")
                        /\ HandedToWriter[i].img # None})
    /\ stats[1].failed_to_download = HandedWithStatus("failed_to_download")
    /\ stats[1].failed_to_resize = HandedWithStatus("failed_to_resize")
    /\ SuccessTally = stats[1].successes

\* =========================================================== sleep placement
\* C20: every time.sleep of download_image_with_retry is followed by another
\* download_image call, so there are fewer sleeps than attempts and none
\* after the last attempt.
C20_SleepOnlyBeforeAttempt ==
  FetchDone /\ fetch_ret[1].returns =>
    /\ \A i \in SleepIdx : i < Len(FetchTrace) /\ IsCall(FetchTrace[i + 1])
    /\ Cardinality(SleepIdx) < Cardinality(CallIdx)

====
